---- MODULE Spec2Model ----
(***************************************************************************)
(* Time-series leaf linking of plantcv/time_series/link_utilities.py:      *)
(* the IoU overlap of two mask sets (_compute_overlaps_masks), the         *)
(* thresholded assignment of PlantData.linking and the identity and        *)
(* trajectory construction of PlantData.get_series.                        *)
(*                                                                         *)
(* Representation.  A mask is the set of its pixels that are > .5.  A      *)
(* float similarity is the exact fraction <<numerator, denominator>>;      *)
(* 0/0 is NaN and -1/0 is -inf, as numpy produces them.  numpy arrays      *)
(* that the code indexes are functions on 0..n-1; Python lists that the    *)
(* code only iterates are sequences.  Library behaviour is that of the     *)
(* numpy/scipy releases the file was written for (scipy >= 1.4, which      *)
(* introduced maximize=True): np.max over a zero-length axis raises        *)
(* ValueError, and linear_sum_assignment raises ValueError on a matrix     *)
(* holding NaN.  A raised exception leaves the object as it was; the       *)
(* model records it in status so that a caller may go on.  The caller      *)
(* links the pairs in frame order, as in "for t in range(total_time - 1)", *)
(* and may build the series at any point after initialize_linking.         *)
(***************************************************************************)
EXTENDS Integers, Sequences, FiniteSets, TLC

\* ---------------------------------------------------------------- bounds
NumFrames == 3
MaxLeaves == 2
MaxTotalLeaves == 4
NumPixels == 6

\* ------------------------------------------------------ program constants
ThresholdNum == 1
ThresholdDen == 5
threshold == <<ThresholdNum, ThresholdDen>>
Sentinel == 0 - 1
NaN == <<0, 0>>
NegInf == <<0 - 1, 0>>
Zero == <<0, 1>>

VARIABLES masks, pc, num_emergence, link_info, weights, available_leaves,
          status, link_series

vars == <<masks, pc, num_emergence, link_info, weights, available_leaves,
          status, link_series>>

\* ----------------------------------------------------------------- inputs
\* The masks a leaf may have: empty, one pixel, a large blob that holds
\* that pixel, and a pixel apart from both.
MaskChoices == { {}, {1}, 1..(NumPixels - 1), {NumPixels} }

IsInjective(f) == \A a, b \in DOMAIN f : a # b => f[a] # f[b]

\* One frame: the third axis of r["masks"], at most MaxLeaves distinct masks.
FrameChoices ==
  { f \in UNION { [0..(k - 1) -> MaskChoices] : k \in 0..MaxLeaves } :
      IsInjective(f) }

Min(a, b) == IF a < b THEN a ELSE b

RECURSIVE MaskSeries(_, _)
\* The mask sets of the first T frames with at most budget masks in all.
MaskSeries(T, budget) ==
  IF T = 0 THEN { <<>> }
  ELSE UNION {
         { [i \in 0..(T - 1) |-> IF i < T - 1 THEN gf[1][i] ELSE gf[2]] :
             gf \in MaskSeries(T - 1, budget - k) \X
                    { h \in FrameChoices : Cardinality(DOMAIN h) = k } } :
         k \in 0..Min(MaxLeaves, budget) }

\* ------------------------------------------------------ derived counters
total_time == NumFrames
NumMasks(frame) == Cardinality(DOMAIN frame)
num_leaves == [i \in 0..(total_time - 1) |-> NumMasks(masks[i])]
init_nleaf == NumMasks(masks[0])

\* -------------------------------------------------------- float helpers
IsNaN(w) == w[1] = 0 /\ w[2] = 0
\* a < b and a >= b on floats: every comparison with NaN is False
Less(a, b) == ~IsNaN(a) /\ ~IsNaN(b) /\ a[1] * b[2] < b[1] * a[2]
GreaterEq(a, b) == ~IsNaN(a) /\ ~IsNaN(b) /\ a[1] * b[2] >= b[1] * a[2]
Add(a, b) == <<a[1] * b[2] + b[1] * a[2], a[2] * b[2]>>

\* ------------------------------------------------------- overlap engine
IoU(maski, maskj) ==
  LET intersection == Cardinality(maski \cap maskj)
      union == Cardinality(maskj) + Cardinality(maski) - intersection
  IN  IF union = 0 THEN NaN ELSE <<intersection, union>>

ComputeOverlapsMasks(masks1, masks2) ==
  LET n1 == NumMasks(masks1)
      n2 == NumMasks(masks2)
  IN  IF n1 = 0 \/ n2 = 0
      THEN [i \in 0..(n1 - 1) |-> [j \in 0..(n2 - 1) |-> Zero]]
      ELSE [i \in 0..(n1 - 1) |-> [j \in 0..(n2 - 1) |->
               IoU(masks1[i], masks2[j])]]

\* --------------------------------------------------- assignment solver
RECURSIVE ColMaxFrom(_, _, _)
\* np.max(weight, axis=0)[c] over rows r..0; NaN propagates
ColMaxFrom(weight, r, c) ==
  IF r = 0 THEN weight[0][c]
  ELSE LET rest == ColMaxFrom(weight, r - 1, c)
       IN  IF IsNaN(rest) \/ IsNaN(weight[r][c]) THEN NaN
           ELSE IF Less(rest, weight[r][c]) THEN weight[r][c] ELSE rest

ColMax(weight, n0, c) == ColMaxFrom(weight, n0 - 1, c)

RangeSeq(n) == [x \in 1..n |-> x - 1]

IdxCol(weight, n0, n1) ==
  { c \in 0..(n1 - 1) : Less(ColMax(weight, n0, c), threshold) }

AvailCol(weight, n0, n1) ==
  LET idx_col == IdxCol(weight, n0, n1)
      Keep(x) == x \notin idx_col
  IN  SelectSeq(RangeSeq(n1), Keep)

\* np.delete(weight_, idx_col, 1)
DeleteCols(weight, n0, n1) ==
  LET avail_col == AvailCol(weight, n0, n1)
  IN  [r \in 0..(n0 - 1) |-> [c \in 0..(Len(avail_col) - 1) |->
         weight[r][avail_col[c + 1]]]]

HasNaN(W, n0, k) == \E r \in 0..(n0 - 1) : \E c \in 0..(k - 1) : IsNaN(W[r][c])

\* The pairings a rectangular assignment may return: sets of (row, column)
\* pairs, one-to-one, of size min(n0, k).
Pairings(n0, k) ==
  { P \in SUBSET ((0..(n0 - 1)) \X (0..(k - 1))) :
      /\ Cardinality(P) = Min(n0, k)
      /\ \A p, q \in P : p # q => (p[1] # q[1] /\ p[2] # q[2]) }

RECURSIVE Total(_, _)
Total(W, P) ==
  IF P = {} THEN Zero
  ELSE LET p == CHOOSE x \in P : TRUE
       IN  Add(W[p[1]][p[2]], Total(W, P \ {p}))

\* mutant: every row takes its own best column, columns are not exclusive
GreedyRowArgmax(W, n0, k) ==
  IF k = 0 THEN { {} }
  ELSE { { <<r, CHOOSE c \in 0..(k - 1) :
                  \A d \in 0..(k - 1) : GreaterEq(W[r][c], W[r][d])>> :
           r \in 0..(n0 - 1) } }

\* scipy.optimize.linear_sum_assignment(W, maximize=True): a pairing of
\* maximum total weight; which one among equals is the solver's choice.
LinearSumAssignment(W, n0, k) ==
  { P \in Pairings(n0, k) :
      \A Q \in Pairings(n0, k) : GreaterEq(Total(W, P), Total(W, Q)) }

\* mutant: the re-check of line 340 written with > instead of >=
LinkOfStrict(W, avail_col, P, n0) ==
  [r \in 0..(n0 - 1) |->
     IF \E p \in P : p[1] = r /\ Less(threshold, W[r][p[2]])
     THEN LET p == CHOOSE x \in P : x[1] = r IN avail_col[p[2] + 1]
     ELSE Sentinel]

\* the loop of lines 339-341 over zip(row_ind, col_ind)
LinkOf(W, avail_col, P, n0) ==
  [r \in 0..(n0 - 1) |->
     IF \E p \in P : p[1] = r /\ GreaterEq(W[r][p[2]], threshold)
     THEN LET p == CHOOSE x \in P : x[1] = r IN avail_col[p[2] + 1]
     ELSE Sentinel]

\* ------------------------------------------------------------ the driver
Init ==
  /\ masks \in MaskSeries(NumFrames, MaxTotalLeaves)
  /\ pc = "loaded"
  /\ num_emergence = 0
  /\ link_info = <<>>
  /\ weights = <<>>
  /\ available_leaves = <<>>
  /\ status = <<>>
  /\ link_series = <<>>

getnumemergence ==
  /\ pc = "loaded"
  /\ num_emergence' = [t \in 0..(total_time - 1) |->
        IF t = 0 THEN init_nleaf ELSE num_leaves[t] - num_leaves[t - 1]]
  /\ pc' = "counted"
  /\ UNCHANGED <<masks, link_info, weights, available_leaves, status,
                 link_series>>

initialize_linking ==
  /\ pc = "counted"
  /\ link_info' = [i \in 0..(total_time - 2) |->
        [x \in 0..(num_leaves[i] - 1) |-> Sentinel]]
  /\ weights' = [i \in 0..(total_time - 2) |->
        [x \in 0..(num_leaves[i] - 1) |->
           [y \in 0..(num_leaves[i + 1] - 1) |-> NegInf]]]
  /\ available_leaves' = [i \in 0..(total_time - 1) |->
        RangeSeq(num_leaves[i])]
  /\ status' = [i \in 0..(total_time - 2) |-> "pending"]
  /\ pc' = "linking"
  /\ UNCHANGED <<masks, num_emergence, link_series>>

linking(t0) ==
  /\ pc = "linking"
  /\ status[t0] = "pending"
  /\ \A u \in 0..(t0 - 1) : status[u] # "pending"
  /\ LET masks0 == masks[t0]
         masks1 == masks[t0 + 1]
         n0 == Len(available_leaves[t0])
         n1 == Len(available_leaves[t0 + 1])
         weight == ComputeOverlapsMasks(masks0, masks1)
     IN  IF n0 = 0
         THEN \* np.max over the empty row axis raises
              /\ status' = [status EXCEPT ![t0] = "ValueError"]
              /\ UNCHANGED link_info
         ELSE LET avail_col == AvailCol(weight, n0, n1)
                  weight_ == DeleteCols(weight, n0, n1)
                  k == Len(avail_col)
              IN  IF HasNaN(weight_, n0, k)
                  THEN \* linear_sum_assignment rejects the matrix
                       /\ status' = [status EXCEPT ![t0] = "ValueError"]
                       /\ UNCHANGED link_info
                  ELSE \E P \in LinearSumAssignment(weight_, n0, k) :
                         /\ link_info' = [link_info EXCEPT ![t0] =
                               LinkOf(weight_, avail_col, P, n0)]
                         /\ status' = [status EXCEPT ![t0] = "done"]
  /\ UNCHANGED <<masks, pc, num_emergence, weights, available_leaves,
                 link_series>>

\* ---------------------------------------------------- trajectory builder
Values(a) == { a[x] : x \in DOMAIN a }

\* mutant: the test against link_info[t - 1] is dropped
NewLeavesAll(t) == available_leaves[t]

\* line 356: [i for i in available_leaves[t] if i not in link_info[t - 1]];
\* line 349 for t = 0
NewLeaves(t) ==
  IF t = 0 THEN available_leaves[0]
  ELSE LET IsNew(i) == i \notin Values(link_info[t - 1])
       IN  SelectSeq(available_leaves[t], IsNew)

RECURSIVE UniqueIdAt(_)
\* the running counter unique_id when the loop of line 354 reaches frame t
UniqueIdAt(t) ==
  IF t = 0 THEN 0
  ELSE UniqueIdAt(t - 1) + Len(NewLeaves(t - 1))

\* mutant: the counter unique_id starts again at every frame
UniqueIdsPerFrame(t) == [x \in 1..Len(NewLeaves(t)) |-> x - 1]

\* lines 351 and 362-366: the identifiers handed out at frame t
UniqueIds(t) ==
  [x \in 1..Len(NewLeaves(t)) |->
     IF t = 0 THEN NewLeaves(0)[x] ELSE UniqueIdAt(t) + (x - 1)]

\* line 368: the keys 't0', 't1', ... of link_series
SeriesKeys ==
  {0} \cup { t \in 1..(total_time - 1) : NewLeaves(t) # <<>> }

RECURSIVE SeriesAt(_, _, _)
\* lines 372-381: the entry at time t_ of the series of leaf, new at t0
SeriesAt(t0, leaf, t_) ==
  IF t_ < t0 THEN Sentinel
  ELSE IF t_ = t0 THEN leaf
  ELSE IF t_ = t0 + 1 THEN link_info[t0][leaf]
  ELSE LET idx == SeriesAt(t0, leaf, t_ - 1)
       IN  IF idx < 0 THEN Sentinel ELSE link_info[t_ - 1][idx]

RECURSIVE SeriesAtNoBreak(_, _, _)
\* mutant: no break at line 378, so a negative idx indexes from the end
SeriesAtNoBreak(t0, leaf, t_) ==
  IF t_ < t0 THEN Sentinel
  ELSE IF t_ = t0 THEN leaf
  ELSE LET idx == SeriesAtNoBreak(t0, leaf, t_ - 1)
           n == num_leaves[t_ - 1]
       IN  IF idx >= 0 THEN link_info[t_ - 1][idx]
           ELSE IF n = 0 THEN Sentinel ELSE link_info[t_ - 1][n + idx]

LeafSeriesNoBreak(t0, leaf) ==
  [t_ \in 0..(total_time - 1) |-> SeriesAtNoBreak(t0, leaf, t_)]

\* mutant: only line 375 runs, the loop of lines 376-381 is missing
LeafSeriesOneStep(t0, leaf) ==
  [t_ \in 0..(total_time - 1) |->
     IF t_ <= t0 + 1 THEN SeriesAt(t0, leaf, t_) ELSE Sentinel]

LeafSeries(t0, leaf) ==
  [t_ \in 0..(total_time - 1) |-> SeriesAt(t0, leaf, t_)]

get_series ==
  /\ pc = "linking"
  /\ link_series' = [t \in SeriesKeys |->
        [new_leaf  |-> NewLeaves(t),
         unique_id |-> UniqueIds(t),
         leaf      |-> [l \in Values(NewLeaves(t)) |-> LeafSeries(t, l)]]]
  /\ pc' = "done"
  /\ UNCHANGED <<masks, num_emergence, link_info, weights, available_leaves,
                 status>>

Next ==
  \/ getnumemergence
  \/ initialize_linking
  \/ \E t0 \in 0..(NumFrames - 2) : linking(t0)
  \/ get_series

Spec == Init /\ [][Next]_vars

\* ------------------------------------------------- vocabulary of the claims
Initialized == pc \in {"linking", "done"}
Built == pc = "done"
Pairs == 0..(total_time - 2)
AllLinked == Initialized /\ \A t \in Pairs : status[t] = "done"
Leaves(t) == 0..(num_leaves[t] - 1)
W(t) == ComputeOverlapsMasks(masks[t], masks[t + 1])

\* an identity is named by its frame of introduction and its position there
Identities ==
  UNION { { <<t, x>> : x \in 1..Len(link_series[t].new_leaf) } :
          t \in DOMAIN link_series }
IdOf(e) == link_series[e[1]].unique_id[e[2]]
LeafOf(e) == link_series[e[1]].new_leaf[e[2]]
TrajOf(e) == link_series[e[1]].leaf[LeafOf(e)]
NewCount(t) ==
  IF t \in DOMAIN link_series THEN Len(link_series[t].new_leaf) ELSE 0
NewSet(t) ==
  IF t \in DOMAIN link_series THEN Values(link_series[t].new_leaf) ELSE {}
Unlinked(t) ==
  IF t = 0 THEN Leaves(0)
  ELSE { j \in Leaves(t) : \A i \in Leaves(t - 1) : link_info[t - 1][i] # j }

\* C1: once every pair is linked and get_series has run, each leaf index of
\* each frame is the value at that time of exactly one identity's series.
C1_ExactlyOneIdentity ==
  (Built /\ AllLinked) =>
    \A t \in 0..(total_time - 1) : \A j \in Leaves(t) :
      Cardinality({ e \in Identities : TrajOf(e)[t] = j }) = 1

\* a run where one leaf is followed to the end and another emerges at
\* frame 1 and is lost at frame 2
C1_Witness ==
  /\ Built /\ AllLinked
  /\ \E e \in Identities : \A t \in 0..(total_time - 1) : TrajOf(e)[t] # Sentinel
  /\ \E e \in Identities : e[1] = 1 /\ TrajOf(e)[2] = Sentinel

\* C2: a link vector written by linking(t) has one entry per leaf of frame
\* t, each the sentinel or a leaf index of frame t+1, and no leaf of frame
\* t+1 is the target of two rows.
C2_LinkVectorInjective ==
  Initialized =>
    \A t \in Pairs : status[t] = "done" =>
      /\ DOMAIN link_info[t] = Leaves(t)
      /\ \A i \in Leaves(t) :
           link_info[t][i] = Sentinel \/ link_info[t][i] \in Leaves(t + 1)
      /\ \A i, j \in Leaves(t) :
           (i # j /\ link_info[t][i] # Sentinel) =>
             link_info[t][i] # link_info[t][j]

\* two rows linked to two columns, crosswise
C2_Witness ==
  /\ AllLinked
  /\ \E t \in Pairs :
       /\ num_leaves[t] = 2
       /\ link_info[t][0] = 1 /\ link_info[t][1] = 0

\* C3: every recorded link has similarity >= threshold; a lone pair at
\* exactly the threshold is linked, a lone pair below it is not.
C3_ThresholdInclusive ==
  Initialized =>
    \A t \in Pairs : status[t] = "done" =>
      /\ \A i \in Leaves(t) :
           link_info[t][i] # Sentinel =>
             GreaterEq(W(t)[i][link_info[t][i]], threshold)
      /\ (num_leaves[t] = 1 /\ num_leaves[t + 1] = 1) =>
           /\ (W(t)[0][0][1] * ThresholdDen = ThresholdNum * W(t)[0][0][2])
                => link_info[t][0] = 0
           /\ Less(W(t)[0][0], threshold) => link_info[t][0] = Sentinel

\* pair 0 is a lone pair at exactly 1/5, pair 1 a lone pair below it
C3_Witness ==
  /\ AllLinked
  /\ num_leaves[0] = 1 /\ num_leaves[1] = 1 /\ num_leaves[2] = 1
  /\ W(0)[0][0] = threshold /\ link_info[0][0] = 0
  /\ Less(W(1)[0][0], threshold) /\ link_info[1][0] = Sentinel

\* C4: frame 0 gets identities 0..num_leaves[0]-1 in leaf order; a later
\* frame gives a fresh identity to exactly its leaves that no link of the
\* previous frame reaches, in ascending leaf order; identities increase
\* strictly in (frame, leaf) order of introduction, so none is used twice.
C4_FreshIdentities ==
  Built =>
    /\ 0 \in DOMAIN link_series
    /\ link_series[0].new_leaf = RangeSeq(num_leaves[0])
    /\ link_series[0].unique_id = RangeSeq(num_leaves[0])
    /\ \A t \in 0..(total_time - 1) : NewSet(t) = Unlinked(t)
    /\ \A t \in DOMAIN link_series :
         /\ Len(link_series[t].unique_id) = Len(link_series[t].new_leaf)
         /\ \A x, y \in 1..Len(link_series[t].new_leaf) :
              x < y => link_series[t].new_leaf[x] < link_series[t].new_leaf[y]
    /\ \A e, f \in Identities :
         (e[1] < f[1] \/ (e[1] = f[1] /\ LeafOf(e) < LeafOf(f)))
           => IdOf(e) < IdOf(f)
    /\ { IdOf(e) : e \in Identities } = 0..(Cardinality(Identities) - 1)

\* leaves introduced at frame 0 and at both later frames, next to a
\* linked leaf at frame 1
C4_Witness ==
  /\ Built /\ AllLinked
  /\ num_leaves[0] >= 1
  /\ NewCount(1) >= 1 /\ NewCount(1) < num_leaves[1]
  /\ NewCount(2) >= 1

\* C5 as stated: a sentinel anywhere in a series is followed by sentinels.
C5_SentinelAbsorbing_Original ==
  Built =>
    \A e \in Identities : \A t, u \in 0..(total_time - 1) :
      (t < u /\ TrajOf(e)[t] = Sentinel) => TrajOf(e)[u] = Sentinel

\* C5 amended: a sentinel after the frame of introduction is followed by
\* sentinels (the sentinels before introduction are followed by the leaf).
C5_SentinelAbsorbingAfterIntro ==
  Built =>
    \A e \in Identities : \A t, u \in 0..(total_time - 1) :
      (e[1] < t /\ t < u /\ TrajOf(e)[t] = Sentinel)
        => TrajOf(e)[u] = Sentinel

\* a leaf lost at frame 1 while another leaf is linked from frame 1 to 2
C5_Witness ==
  /\ Built /\ AllLinked
  /\ \E e \in Identities :
       e[1] = 0 /\ TrajOf(e)[1] = Sentinel /\ TrajOf(e)[2] = Sentinel
  /\ \E i \in Leaves(1) : link_info[1][i] # Sentinel

\* C6: a pair of empty masks has similarity 0, not NaN, and linking(t)
\* completes on it.
C6_EmptyMasksZero ==
  Initialized =>
    \A t \in Pairs : \A i \in Leaves(t) : \A j \in Leaves(t + 1) :
      (status[t] # "pending" /\ masks[t][i] = {} /\ masks[t + 1][j] = {})
        => (W(t)[i][j] = Zero /\ status[t] = "done")

\* C7: a pair with an empty frame is an ordinary case: no leaf at t gives
\* an empty link vector, no leaf (or no kept column) at t+1 gives all
\* sentinels, and linking(t) does not raise.
C7_EmptyFrameNoError ==
  Initialized =>
    \A t \in Pairs :
      (status[t] # "pending" /\
         (num_leaves[t] = 0 \/ num_leaves[t + 1] = 0 \/
          (~HasNaN(W(t), num_leaves[t], num_leaves[t + 1]) /\
           AvailCol(W(t), num_leaves[t], num_leaves[t + 1]) = <<>>)))
        => /\ status[t] = "done"
           /\ DOMAIN link_info[t] = Leaves(t)
           /\ \A i \in Leaves(t) : link_info[t][i] = Sentinel

\* C8: after linking(t) the stored weights[t] is the IoU matrix of the pair.
C8_WeightsStored ==
  Initialized =>
    \A t \in Pairs : status[t] = "done" =>
      /\ weights[t] = W(t)
      /\ \A i \in Leaves(t) : \A j \in Leaves(t + 1) :
           GreaterEq(weights[t][i][j], Zero) /\ GreaterEq(<<1, 1>>, weights[t][i][j])

\* C9: num_emergence[t] is the number of leaves of frame t that get a fresh
\* identity.
C9_EmergenceCount ==
  (Built /\ AllLinked) =>
    \A t \in 0..(total_time - 1) : num_emergence[t] = NewCount(t)

\* C10: a series is the sentinel before its frame of introduction, the leaf
\* at it, and afterwards follows the link of the previous entry until the
\* first sentinel.
C10_ForwardChain ==
  Built =>
    \A e \in Identities :
      /\ DOMAIN TrajOf(e) = 0..(total_time - 1)
      /\ TrajOf(e)[e[1]] = LeafOf(e)
      /\ \A t \in 0..(total_time - 1) :
           /\ t < e[1] => TrajOf(e)[t] = Sentinel
           /\ t > e[1] =>
                TrajOf(e)[t] =
                  IF TrajOf(e)[t - 1] # Sentinel
                  THEN link_info[t - 1][TrajOf(e)[t - 1]]
                  ELSE Sentinel

\* a leaf of frame 0 that changes index on the way to the last frame
C10_Witness ==
  /\ Built /\ AllLinked
  /\ \E e \in Identities :
       /\ e[1] = 0
       /\ TrajOf(e)[1] # Sentinel /\ TrajOf(e)[1] # TrajOf(e)[0]
       /\ TrajOf(e)[2] # Sentinel /\ TrajOf(e)[2] # TrajOf(e)[1]
====
